---- MODULE Spec2Model ----
(***************************************************************************)
(* Model of src/server.js: an express application with a credential store, *)
(* POST /login issuing a signed one-minute token, the authenticateJWT      *)
(* guard factory, and the two guarded /entities routes.                    *)
(*                                                                         *)
(* Strings that the code takes apart (the Authorization header) are        *)
(* sequences of atoms: a space, a word, or a serialised token, which holds *)
(* no space.  A signature is symbolic: the key and the payload it was      *)
(* computed over.  The clock counts ticks of 1/Resolution second.          *)
(***************************************************************************)
EXTENDS Integers, Sequences, FiniteSets, TLC

VARIABLES users, now, issued, req, res, nextCalled, pc, outcomes

vars == <<users, now, issued, req, res, nextCalled, pc, outcomes>>

----------------------------------------------------------------------------
(* Bounds of the model *)

Resolution == 2
MaxIssued == 2

(* Program constants *)

ExpiresIn == 60
SaltRounds == 5
NumEntities == 100
DefaultSkip == 0
DefaultLimit == 10
SECRET_KEY == "playboy"

MsPerTick == 1000 \div Resolution
Delays == {ExpiresIn * Resolution - 1, ExpiresIn * Resolution, ExpiresIn * Resolution + 1}
MaxNow == (ExpiresIn + 2) * Resolution
Salts == {"saltA", "saltB"}

----------------------------------------------------------------------------
(* Values *)

SP == [kind |-> "sp"]
Word(w) == [kind |-> "word", text |-> w]
Undefined == <<[kind |-> "undefined"]>>
NoUser == [undefined |-> TRUE]
NoSignature == [alg |-> "none"]

Truthy(s) == s # Undefined /\ s # <<>>

Present(obj, f) == f \in DOMAIN obj /\ obj[f] # ""

Min(a, b) == IF a < b THEN a ELSE b

(* Math.floor(Date.now() / 1000) as jsonwebtoken computes it *)
Seconds(clock) == clock \div Resolution

(* Date.now() *)
DateNow(clock) == clock * MsPerTick

----------------------------------------------------------------------------
(* bcryptjs *)

hashSync(s, rounds, salt) == [salt |-> salt, rounds |-> rounds, of |-> s]

compareSync(s, hash) == hashSync(s, hash.rounds, hash.salt) = hash

----------------------------------------------------------------------------
(* jsonwebtoken *)

HS256(payload, key) == [alg |-> "HS256", key |-> key, over |-> payload]

Token(payload, sig) == [kind |-> "jwt", payload |-> payload, sig |-> sig]

jwtSign(claims, secretOrPrivateKey, expiresIn, clock) ==
    LET iat == Seconds(clock)
        payload == [email |-> claims.email, role |-> claims.role,
                    permissions |-> claims.permissions,
                    iat |-> iat, exp |-> iat + expiresIn]
    IN  Token(payload, HS256(payload, secretOrPrivateKey))

(* jwt.decode in place of jwt.verify: the payload is read, nothing is checked *)
jwtDecode(token, secretOrPublicKey, clock) ==
    IF ~Truthy(token)
    THEN [err |-> "jwt must be provided", decoded |-> NoUser]
    ELSE IF Len(token) # 1 \/ token[1].kind # "jwt"
    THEN [err |-> "jwt malformed", decoded |-> NoUser]
    ELSE [err |-> "", decoded |-> token[1].payload]

(* the signature is checked, the expiry is not *)
jwtVerifyIgnoreExpiration(token, secretOrPublicKey, clock) ==
    IF ~Truthy(token)
    THEN [err |-> "jwt must be provided", decoded |-> NoUser]
    ELSE IF Len(token) # 1 \/ token[1].kind # "jwt"
    THEN [err |-> "jwt malformed", decoded |-> NoUser]
    ELSE IF token[1].sig = NoSignature
    THEN [err |-> "jwt signature is required", decoded |-> NoUser]
    ELSE IF token[1].sig # HS256(token[1].payload, secretOrPublicKey)
    THEN [err |-> "invalid signature", decoded |-> NoUser]
    ELSE [err |-> "", decoded |-> token[1].payload]

(* a token that carries a signature is trusted whatever key made it *)
jwtVerifyAnyKey(token, secretOrPublicKey, clock) ==
    IF ~Truthy(token)
    THEN [err |-> "jwt must be provided", decoded |-> NoUser]
    ELSE IF Len(token) # 1 \/ token[1].kind # "jwt"
    THEN [err |-> "jwt malformed", decoded |-> NoUser]
    ELSE IF token[1].sig = NoSignature
    THEN [err |-> "jwt signature is required", decoded |-> NoUser]
    ELSE IF Seconds(clock) >= token[1].payload.exp
    THEN [err |-> "jwt expired", decoded |-> NoUser]
    ELSE [err |-> "", decoded |-> token[1].payload]

jwtVerify(token, secretOrPublicKey, clock) ==
    IF ~Truthy(token)
    THEN [err |-> "jwt must be provided", decoded |-> NoUser]
    ELSE IF Len(token) # 1 \/ token[1].kind # "jwt"
    THEN [err |-> "jwt malformed", decoded |-> NoUser]
    ELSE IF token[1].sig = NoSignature
    THEN [err |-> "jwt signature is required", decoded |-> NoUser]
    ELSE IF token[1].sig # HS256(token[1].payload, secretOrPublicKey)
    THEN [err |-> "invalid signature", decoded |-> NoUser]
    ELSE IF Seconds(clock) >= token[1].payload.exp
    THEN [err |-> "jwt expired", decoded |-> NoUser]
    ELSE [err |-> "", decoded |-> token[1].payload]

----------------------------------------------------------------------------
(* String.prototype.split and array indexing *)

RECURSIVE Split(_)
Split(s) ==
    IF s = <<>> THEN << <<>> >>
    ELSE IF Head(s).kind = "sp" THEN << <<>> >> \o Split(Tail(s))
    ELSE LET r == Split(Tail(s))
         IN  << <<Head(s)>> \o Head(r) >> \o Tail(r)

At(arr, i) == IF i + 1 <= Len(arr) THEN arr[i + 1] ELSE Undefined

includes(arr, x) == \E i \in 1..Len(arr) : arr[i] = x

(* arr.every(x => other.includes(x)) *)
every(arr, other) == \A i \in 1..Len(arr) : includes(other, arr[i])

----------------------------------------------------------------------------
(* Responses *)

JsonToken(t) == [type |-> "json", token |-> t]
JsonMessage(m) == [type |-> "json", message |-> m]
JsonEntity(id, name) == [type |-> "json", id |-> id, name |-> name]
JsonArray(items) == [type |-> "json", items |-> items]
Text(s) == [type |-> "text", text |-> s]
NoBody == [type |-> "none"]

StatusText(code) ==
    IF code = 401 THEN "Unauthorized"
    ELSE IF code = 403 THEN "Forbidden"
    ELSE "OK"

sendStatus(code) == [status |-> code, body |-> Text(StatusText(code))]

----------------------------------------------------------------------------
(* The credential store *)

InitialUsers(s1, s2) ==
    << [email |-> "andrei@gmail.com",
        password |-> hashSync("12345", SaltRounds, s1),
        role |-> "ADMIN",
        permissions |-> <<"WRITE", "READ">>],
       [email |-> "vasea@gmail.com",
        password |-> hashSync("12345", SaltRounds, s2),
        role |-> "READER",
        permissions |-> <<"READ">>] >>

(* u.email = email in the predicate: an assignment, true of the first element *)
findAssigning(us, email) ==
    IF us # <<>> THEN <<us[1]>> ELSE <<>>

(* Array.prototype.find: the first matching element *)
find(us, email) ==
    IF \E i \in 1..Len(us) : us[i].email = email
    THEN LET i == CHOOSE k \in 1..Len(us) :
                      /\ us[k].email = email
                      /\ \A j \in 1..(k - 1) : us[j].email # email
         IN  <<us[i]>>
    ELSE <<>>

----------------------------------------------------------------------------
(* POST /login *)

(* one message for an unknown email, another for a wrong password *)
loginRevealing(body, us, clock) ==
    IF Present(body, "email") /\ Present(body, "password")
    THEN LET user == find(us, body.email)
         IN  IF user = <<>>
             THEN [status |-> 401, body |-> JsonMessage("Invalid email")]
             ELSE IF compareSync(body.password, user[1].password)
             THEN [status |-> 200,
                   body |-> JsonToken(jwtSign([email |-> user[1].email,
                                               role |-> user[1].role,
                                               permissions |-> user[1].permissions],
                                              SECRET_KEY, ExpiresIn, clock))]
             ELSE [status |-> 401, body |-> JsonMessage("Invalid password")]
    ELSE [status |-> 400, body |-> JsonMessage("Email and password are required")]

(* the email is looked up before the presence of the password is tested *)
loginLookupFirst(body, us, clock) ==
    IF Present(body, "email") /\ find(us, body.email) = <<>>
    THEN [status |-> 401, body |-> JsonMessage("Invalid email or password")]
    ELSE IF Present(body, "email") /\ Present(body, "password")
    THEN LET user == find(us, body.email)
         IN  IF user # <<>> /\ compareSync(body.password, user[1].password)
             THEN [status |-> 200,
                   body |-> JsonToken(jwtSign([email |-> user[1].email,
                                               role |-> user[1].role,
                                               permissions |-> user[1].permissions],
                                              SECRET_KEY, ExpiresIn, clock))]
             ELSE [status |-> 401, body |-> JsonMessage("Invalid email or password")]
    ELSE [status |-> 400, body |-> JsonMessage("Email and password are required")]

(* the claims are built from the role's default permissions, not the record's *)
loginRolePermissions(body, us, clock) ==
    IF Present(body, "email") /\ Present(body, "password")
    THEN LET user == find(us, body.email)
         IN  IF user # <<>> /\ compareSync(body.password, user[1].password)
             THEN [status |-> 200,
                   body |-> JsonToken(jwtSign([email |-> user[1].email,
                                               role |-> user[1].role,
                                               permissions |-> <<"READ", "WRITE">>],
                                              SECRET_KEY, ExpiresIn, clock))]
             ELSE [status |-> 401, body |-> JsonMessage("Invalid email or password")]
    ELSE [status |-> 400, body |-> JsonMessage("Email and password are required")]

login(body, us, clock) ==
    IF Present(body, "email") /\ Present(body, "password")
    THEN LET user == find(us, body.email)
         IN  IF user # <<>> /\ compareSync(body.password, user[1].password)
             THEN [status |-> 200,
                   body |-> JsonToken(jwtSign([email |-> user[1].email,
                                               role |-> user[1].role,
                                               permissions |-> user[1].permissions],
                                              SECRET_KEY, ExpiresIn, clock))]
             ELSE [status |-> 401, body |-> JsonMessage("Invalid email or password")]
    ELSE [status |-> 400, body |-> JsonMessage("Email and password are required")]

----------------------------------------------------------------------------
(* The guard *)

(* the guard without its permission test *)
authenticateOnly(permissionsRequired, headers, clock) ==
    LET authHeader == headers.authorization
    IN  IF Truthy(authHeader)
        THEN LET token == At(Split(authHeader), 1)
                 v == jwtVerify(token, SECRET_KEY, clock)
             IN  IF v.err # ""
                 THEN [next |-> FALSE, status |-> 403, user |-> NoUser]
                 ELSE [next |-> TRUE, status |-> 0, user |-> v.decoded]
        ELSE [next |-> FALSE, status |-> 401, user |-> NoUser]

(* a token that fails verification is answered 401 *)
authenticateJWTUnauthorized(permissionsRequired, headers, clock) ==
    LET authHeader == headers.authorization
    IN  IF Truthy(authHeader)
        THEN LET token == At(Split(authHeader), 1)
                 v == jwtVerify(token, SECRET_KEY, clock)
             IN  IF v.err # ""
                 THEN [next |-> FALSE, status |-> 401, user |-> NoUser]
                 ELSE IF every(permissionsRequired, v.decoded.permissions)
                 THEN [next |-> TRUE, status |-> 0, user |-> v.decoded]
                 ELSE [next |-> FALSE, status |-> 403, user |-> v.decoded]
        ELSE [next |-> FALSE, status |-> 401, user |-> NoUser]

authenticateJWT(permissionsRequired, headers, clock) ==
    LET authHeader == headers.authorization
    IN  IF Truthy(authHeader)
        THEN LET token == At(Split(authHeader), 1)
                 v == jwtVerify(token, SECRET_KEY, clock)
             IN  IF v.err # ""
                 THEN [next |-> FALSE, status |-> 403, user |-> NoUser]
                 ELSE IF every(permissionsRequired, v.decoded.permissions)
                 THEN [next |-> TRUE, status |-> 0, user |-> v.decoded]
                 ELSE [next |-> FALSE, status |-> 403, user |-> v.decoded]
        ELSE [next |-> FALSE, status |-> 401, user |-> NoUser]

(* where the guard leaves a request, and the one thing it did to end there *)
GuardEnd(g) ==
    IF g.next THEN "Authorized"
    ELSE IF g.status = 401 THEN "RejectedUnauthenticated"
    ELSE "RejectedForbidden"

GuardOutcome(g) ==
    IF g.next THEN "next"
    ELSE IF g.status = 401 THEN "401"
    ELSE "403"

----------------------------------------------------------------------------
(* The handlers of /entities *)

RECURSIVE Number(_)
Number(digits) ==
    IF digits = <<>> THEN 0
    ELSE 10 * Number(SubSeq(digits, 1, Len(digits) - 1)) + digits[Len(digits)]

slice(n, start, end) ==
    [k \in 1..(IF Min(end, n) > start THEN Min(end, n) - start ELSE 0) |->
        JsonEntity(start + k - 1, <<"Entity", start + k - 1>>)]

(* the limit is taken for the end of the slice *)
getEntitiesLimitAsEnd(query) ==
    LET skip == IF "skip" \in DOMAIN query THEN Number(query.skip) ELSE DefaultSkip
        limit == IF "limit" \in DOMAIN query THEN Number(query.limit) ELSE DefaultLimit
    IN  [status |-> 200, body |-> JsonArray(slice(NumEntities, skip, limit))]

getEntities(query) ==
    LET skip == IF "skip" \in DOMAIN query THEN Number(query.skip) ELSE DefaultSkip
        limit == IF "limit" \in DOMAIN query THEN Number(query.limit) ELSE DefaultLimit
    IN  [status |-> 200, body |-> JsonArray(slice(NumEntities, skip, skip + limit))]

postEntities(body, clock) ==
    IF Present(body, "name")
    THEN [status |-> 201, body |-> JsonEntity(DateNow(clock), body.name)]
    ELSE [status |-> 400, body |-> JsonMessage("Invalid input")]

----------------------------------------------------------------------------
(* Inputs *)

Emails == {"andrei@gmail.com", "vasea@gmail.com", "nobody@gmail.com", ""}
Passwords == {"12345", "wrong", ""}

LoginBodies ==
    {b \in UNION {[D -> Emails \cup Passwords] : D \in SUBSET {"email", "password"}} :
        /\ "email" \in DOMAIN b => b.email \in Emails
        /\ "password" \in DOMAIN b => b.password \in Passwords}

EntityBodies == UNION {[D -> {"foo"}] : D \in SUBSET {"name"}}

Queries ==
    {q \in UNION {[D -> {<<5>>, <<9, 8>>, <<1, 0, 5>>, <<3>>, <<0>>}] :
                      D \in SUBSET {"skip", "limit"}} :
        \/ DOMAIN q = {}
        \/ DOMAIN q = {"skip"} /\ q.skip \in {<<9, 8>>, <<1, 0, 5>>}
        \/ DOMAIN q = {"limit"} /\ q.limit = <<0>>
        \/ DOMAIN q = {"skip", "limit"} /\ q.skip = <<5>> /\ q.limit = <<3>>}

(* Tokens a client can build without the secret: any claims of its choice, *)
(* unsigned or signed with another key, and an issued token with its       *)
(* payload altered under the old signature.                                *)
ForgedPayloads(us, clock) ==
    {[email |-> us[i].email, role |-> us[i].role, permissions |-> us[i].permissions,
      iat |-> Seconds(clock), exp |-> Seconds(clock) + ExpiresIn] : i \in 1..Len(us)}

Forged(us, clock) ==
    {Token(p, HS256(p, "attacker")) : p \in ForgedPayloads(us, clock)}
    \cup {Token(p, NoSignature) : p \in ForgedPayloads(us, clock)}

Tampered(toks, clock) ==
    {Token([t.payload EXCEPT !.permissions = <<"WRITE", "READ">>], t.sig) : t \in toks}
    \cup {Token([t.payload EXCEPT !.exp = Seconds(clock) + ExpiresIn], t.sig) : t \in toks}

Bearer(t) == <<Word("Bearer"), SP, t>>

AuthHeaders(us, toks, clock) ==
    {Undefined, <<>>, <<Word("Bearer")>>, <<Word("Bearer"), SP>>, Bearer(Word("garbage"))}
    \cup {Bearer(t) : t \in toks \cup ((Forged(us, clock) \cup Tampered(toks, clock)) \ toks)}
    \cup {<<Word("Basic"), SP, t>> : t \in toks}
    \cup {<<t>> : t \in toks}
    \cup {<<Word("Bearer"), SP, SP, t>> : t \in toks}

NoReq == [method |-> "", path |-> "", headers |-> [authorization |-> Undefined],
          body |-> <<>>, query |-> <<>>, time |-> 0, user |-> NoUser]

NoRes == [status |-> 0, body |-> NoBody]

----------------------------------------------------------------------------
(* State machine *)

Init ==
    /\ \E s1 \in Salts : \E s2 \in Salts \ {s1} : users = InitialUsers(s1, s2)
    /\ now \in 0..(Resolution - 1)
    /\ issued = {}
    /\ req = NoReq
    /\ res = NoRes
    /\ nextCalled = FALSE
    /\ pc = "Idle"
    /\ outcomes = <<>>

Tick(d) ==
    /\ now + d <= MaxNow
    /\ now' = now + d
    /\ UNCHANGED <<users, issued, req, res, nextCalled, pc, outcomes>>

(* the lookup assigns the requested email to the first record of the store *)
LoginAssigning(body) ==
    LET r == login(body, users, now)
    IN  /\ r.status = 200 =>
              (r.body.token \in issued \/ Cardinality(issued) < MaxIssued)
        /\ req' = [method |-> "POST", path |-> "/login",
                   headers |-> [authorization |-> Undefined],
                   body |-> body, query |-> <<>>, time |-> now, user |-> NoUser]
        /\ res' = r
        /\ issued' = IF r.status = 200 THEN issued \cup {r.body.token} ELSE issued
        /\ nextCalled' = FALSE
        /\ pc' = "Idle"
        /\ outcomes' = <<>>
        /\ users' = IF Present(body, "email") /\ Present(body, "password")
                    THEN [users EXCEPT ![1].email = body.email]
                    ELSE users
        /\ UNCHANGED now

Login(body) ==
    LET r == login(body, users, now)
    IN  /\ r.status = 200 =>
              (r.body.token \in issued \/ Cardinality(issued) < MaxIssued)
        /\ req' = [method |-> "POST", path |-> "/login",
                   headers |-> [authorization |-> Undefined],
                   body |-> body, query |-> <<>>, time |-> now, user |-> NoUser]
        /\ res' = r
        /\ issued' = IF r.status = 200 THEN issued \cup {r.body.token} ELSE issued
        /\ nextCalled' = FALSE
        /\ pc' = "Idle"
        /\ outcomes' = <<>>
        /\ UNCHANGED <<users, now>>

(* the decoded user is kept in a variable outside the closure and is used *)
(* again when a later request fails verification                          *)
GetEntitiesRemembering(authorization, query) ==
    LET headers == [authorization |-> authorization]
        v == authenticateJWT(<<"READ">>, headers, now)
        g == IF ~v.next /\ v.status = 403 /\ req.user # NoUser
                        /\ includes(req.user.permissions, "READ")
             THEN [next |-> TRUE, status |-> 0, user |-> req.user]
             ELSE v
    IN  /\ req' = [method |-> "GET", path |-> "/entities", headers |-> headers,
                   body |-> <<>>, query |-> query, time |-> now, user |-> g.user]
        /\ nextCalled' = g.next
        /\ pc' = GuardEnd(g)
        /\ outcomes' = <<GuardOutcome(g)>>
        /\ res' = IF g.next THEN getEntities(query) ELSE sendStatus(g.status)
        /\ UNCHANGED <<users, now, issued>>

(* a token is good for one use: presented again right after it was *)
(* accepted, it is refused                                          *)
GetEntitiesOnce(authorization, query) ==
    LET headers == [authorization |-> authorization]
        v == authenticateJWT(<<"READ">>, headers, now)
        g == IF v.next /\ nextCalled /\ req.headers = headers
             THEN [next |-> FALSE, status |-> 403, user |-> v.user]
             ELSE v
    IN  /\ req' = [method |-> "GET", path |-> "/entities", headers |-> headers,
                   body |-> <<>>, query |-> query, time |-> now, user |-> g.user]
        /\ nextCalled' = g.next
        /\ pc' = GuardEnd(g)
        /\ outcomes' = <<GuardOutcome(g)>>
        /\ res' = IF g.next THEN getEntities(query) ELSE sendStatus(g.status)
        /\ UNCHANGED <<users, now, issued>>

GetEntities(authorization, query) ==
    LET headers == [authorization |-> authorization]
        g == authenticateJWT(<<"READ">>, headers, now)
    IN  /\ req' = [method |-> "GET", path |-> "/entities", headers |-> headers,
                   body |-> <<>>, query |-> query, time |-> now, user |-> g.user]
        /\ nextCalled' = g.next
        /\ pc' = GuardEnd(g)
        /\ outcomes' = <<GuardOutcome(g)>>
        /\ res' = IF g.next THEN getEntities(query) ELSE sendStatus(g.status)
        /\ UNCHANGED <<users, now, issued>>

(* a refusal for a missing permission says which permission is missing *)
PostEntitiesExplaining(authorization, body) ==
    LET headers == [authorization |-> authorization]
        g == authenticateJWT(<<"WRITE">>, headers, now)
    IN  /\ req' = [method |-> "POST", path |-> "/entities", headers |-> headers,
                   body |-> body, query |-> <<>>, time |-> now, user |-> g.user]
        /\ nextCalled' = g.next
        /\ pc' = GuardEnd(g)
        /\ outcomes' = <<GuardOutcome(g)>>
        /\ res' = IF g.next THEN postEntities(body, now)
                  ELSE IF g.user # NoUser
                  THEN [status |-> 403, body |-> JsonMessage("Missing permission WRITE")]
                  ELSE sendStatus(g.status)
        /\ UNCHANGED <<users, now, issued>>

(* the body is validated before the guard is consulted *)
PostEntitiesValidatingFirst(authorization, body) ==
    LET headers == [authorization |-> authorization]
        g == authenticateJWT(<<"WRITE">>, headers, now)
    IN  /\ req' = [method |-> "POST", path |-> "/entities", headers |-> headers,
                   body |-> body, query |-> <<>>, time |-> now, user |-> g.user]
        /\ nextCalled' = g.next
        /\ pc' = GuardEnd(g)
        /\ outcomes' = <<GuardOutcome(g)>>
        /\ res' = IF ~Present(body, "name") THEN postEntities(body, now)
                  ELSE IF g.next THEN postEntities(body, now)
                  ELSE sendStatus(g.status)
        /\ UNCHANGED <<users, now, issued>>

PostEntities(authorization, body) ==
    LET headers == [authorization |-> authorization]
        g == authenticateJWT(<<"WRITE">>, headers, now)
    IN  /\ req' = [method |-> "POST", path |-> "/entities", headers |-> headers,
                   body |-> body, query |-> <<>>, time |-> now, user |-> g.user]
        /\ nextCalled' = g.next
        /\ pc' = GuardEnd(g)
        /\ outcomes' = <<GuardOutcome(g)>>
        /\ res' = IF g.next THEN postEntities(body, now) ELSE sendStatus(g.status)
        /\ UNCHANGED <<users, now, issued>>

Next ==
    \/ \E d \in Delays : Tick(d)
    \/ \E body \in LoginBodies : Login(body)
    \/ \E h \in AuthHeaders(users, issued, now), q \in Queries : GetEntities(h, q)
    \/ \E h \in AuthHeaders(users, issued, now), b \in EntityBodies : PostEntities(h, b)

Spec == Init /\ [][Next]_vars

----------------------------------------------------------------------------
(* The guard one statement at a time.  A request arrives when the server   *)
(* is at rest; the guard then runs to completion, statement by statement,  *)
(* with nothing else running in between.                                   *)

Resting == {"Idle", "Authorized", "RejectedUnauthenticated", "RejectedForbidden"}

RouteRequired(r) == IF r.method = "GET" THEN <<"READ">> ELSE <<"WRITE">>

ArriveGet(authorization, query) ==
    /\ pc \in Resting
    /\ req' = [method |-> "GET", path |-> "/entities",
               headers |-> [authorization |-> authorization],
               body |-> <<>>, query |-> query, time |-> now, user |-> NoUser]
    /\ res' = NoRes
    /\ nextCalled' = FALSE
    /\ pc' = "Start"
    /\ outcomes' = <<>>
    /\ UNCHANGED <<users, now, issued>>

ArrivePost(authorization, body) ==
    /\ pc \in Resting
    /\ req' = [method |-> "POST", path |-> "/entities",
               headers |-> [authorization |-> authorization],
               body |-> body, query |-> <<>>, time |-> now, user |-> NoUser]
    /\ res' = NoRes
    /\ nextCalled' = FALSE
    /\ pc' = "Start"
    /\ outcomes' = <<>>
    /\ UNCHANGED <<users, now, issued>>

CheckHeader ==
    /\ pc = "Start"
    /\ IF Truthy(req.headers.authorization)
       THEN /\ pc' = "HeaderChecked"
            /\ UNCHANGED <<res, outcomes>>
       ELSE /\ res' = sendStatus(401)
            /\ outcomes' = Append(outcomes, "401")
            /\ pc' = "RejectedUnauthenticated"
    /\ UNCHANGED <<users, now, issued, req, nextCalled>>

VerifyToken ==
    /\ pc = "HeaderChecked"
    /\ LET token == At(Split(req.headers.authorization), 1)
           v == jwtVerify(token, SECRET_KEY, now)
       IN  IF v.err # ""
           THEN /\ res' = sendStatus(403)
                /\ outcomes' = Append(outcomes, "403")
                /\ pc' = "RejectedForbidden"
                /\ UNCHANGED req
           ELSE /\ req' = [req EXCEPT !.user = v.decoded]
                /\ pc' = "TokenVerified"
                /\ UNCHANGED <<res, outcomes>>
    /\ UNCHANGED <<users, now, issued, nextCalled>>

(* the else is missing: 403 is sent and the guard goes on to next() *)
CheckPermissionFallthrough ==
    /\ pc = "TokenVerified"
    /\ IF every(RouteRequired(req), req.user.permissions)
       THEN /\ pc' = "PermissionChecked"
            /\ UNCHANGED <<res, outcomes>>
       ELSE /\ res' = sendStatus(403)
            /\ outcomes' = Append(outcomes, "403")
            /\ pc' = "PermissionChecked"
    /\ UNCHANGED <<users, now, issued, req, nextCalled>>

CheckPermission ==
    /\ pc = "TokenVerified"
    /\ IF every(RouteRequired(req), req.user.permissions)
       THEN /\ pc' = "PermissionChecked"
            /\ UNCHANGED <<res, outcomes>>
       ELSE /\ res' = sendStatus(403)
            /\ outcomes' = Append(outcomes, "403")
            /\ pc' = "RejectedForbidden"
    /\ UNCHANGED <<users, now, issued, req, nextCalled>>

InvokeNext ==
    /\ pc = "PermissionChecked"
    /\ nextCalled' = TRUE
    /\ outcomes' = Append(outcomes, "next")
    /\ res' = IF req.method = "GET" THEN getEntities(req.query)
              ELSE postEntities(req.body, now)
    /\ pc' = "Authorized"
    /\ UNCHANGED <<users, now, issued, req>>

GuardStep == CheckHeader \/ VerifyToken \/ CheckPermission \/ InvokeNext

NextSteps ==
    \/ pc \in Resting /\ \E d \in Delays : Tick(d)
    \/ pc \in Resting /\ \E body \in LoginBodies : Login(body)
    \/ \E h \in AuthHeaders(users, issued, now), q \in Queries : ArriveGet(h, q)
    \/ \E h \in AuthHeaders(users, issued, now), b \in EntityBodies : ArrivePost(h, b)
    \/ CheckHeader
    \/ VerifyToken
    \/ CheckPermission
    \/ InvokeNext

SpecSteps == Init /\ [][NextSteps]_vars /\ WF_vars(GuardStep)

----------------------------------------------------------------------------
(* The same server over two expiry windows, with clients that log in with  *)
(* the right password and present the tokens they were issued.             *)

Horizon == (2 * ExpiresIn + 2) * Resolution

GoodLogins ==
    {b \in LoginBodies : DOMAIN b = {"email", "password"} /\ b.password = "12345"
                         /\ b.email \in {"andrei@gmail.com", "vasea@gmail.com"}}

IssuedHeaders(toks) == {Bearer(t) : t \in toks}

LongTick(d) ==
    /\ now + d <= Horizon
    /\ now' = now + d
    /\ UNCHANGED <<users, issued, req, res, nextCalled, pc, outcomes>>

NextLong ==
    \/ \E d \in Delays : LongTick(d)
    \/ \E body \in GoodLogins : Login(body)
    \/ \E h \in IssuedHeaders(issued), q \in Queries : GetEntities(h, q)
    \/ \E h \in IssuedHeaders(issued), b \in EntityBodies : PostEntities(h, b)

SpecLong == Init /\ [][NextLong]_vars

----------------------------------------------------------------------------
(* Vocabulary of the properties: the last request and what it presented *)

Guarded == req.path = "/entities"

IsLogin == req.path = "/login"

Required == IF req.method = "GET" THEN {"READ"} ELSE {"WRITE"}

Authorization == req.headers.authorization

Permissions(t) == {t.payload.permissions[i] : i \in 1..Len(t.payload.permissions)}

SignedWithSecret(t) == t.kind = "jwt" /\ t.sig = HS256(t.payload, SECRET_KEY)

(* the request was made before the instant the token expires *)
Unexpired(t) == req.time < t.payload.exp * Resolution

Rejected(code) == res.status = code /\ ~nextCalled

----------------------------------------------------------------------------
\* C1: the handler behind a guard is invoked only for a request that
\* presented a well-formed token signed with the process secret, unexpired
\* at the time of the request, whose permissions contain every required one.
NextOnlyForAuthorized ==
    (Guarded /\ nextCalled) =>
        \E i \in 1..Len(Authorization) :
            /\ SignedWithSecret(Authorization[i])
            /\ Unexpired(Authorization[i])
            /\ Required \subseteq Permissions(Authorization[i])

\* a token with [WRITE, READ] passed the guard that requires [READ]
NextOnlyForAuthorizedWitness ==
    /\ Guarded /\ nextCalled /\ req.method = "GET"
    /\ \E t \in issued : Authorization = Bearer(t) /\ Permissions(t) = {"WRITE", "READ"}

----------------------------------------------------------------------------
\* C2: a guarded request whose Authorization header is missing, or does not
\* have the form 'Bearer <token>', is answered 401 and the handler is not
\* invoked.
WellFormedBearer(h) ==
    /\ Len(h) = 3
    /\ h[1] = Word("Bearer")
    /\ h[2] = SP
    /\ h[3].kind \in {"jwt", "word"}

MalformedSchemeIs401 ==
    (Guarded /\ ~WellFormedBearer(Authorization)) => Rejected(401)

----------------------------------------------------------------------------
\* C3: a guarded request that presents a token issued by login more than
\* one minute after its issue is answered 403 and the handler is not invoked,
\* though the signature is valid and the token holds the required permissions.
ExpiredTokenRejected ==
    \A t \in issued :
        (Guarded /\ Authorization = Bearer(t)
                 /\ req.time > (t.payload.iat + ExpiresIn) * Resolution)
            => Rejected(403)

ExpiredTokenRejectedWitness ==
    \E t \in issued :
        /\ Guarded /\ Authorization = Bearer(t)
        /\ req.time > (t.payload.iat + ExpiresIn) * Resolution
        /\ SignedWithSecret(t)
        /\ Required \subseteq Permissions(t)
        /\ Rejected(403)

----------------------------------------------------------------------------
\* C4: a guarded request that presents a token whose signature does not
\* verify against the secret is answered 403 and the handler is not invoked,
\* whatever the payload claims.
BadSignatureRejected ==
    (/\ Guarded /\ Len(Authorization) = 3
     /\ Authorization = Bearer(Authorization[3])
     /\ Authorization[3].kind = "jwt"
     /\ ~SignedWithSecret(Authorization[3]))
        => Rejected(403)

\* the payload is unexpired and lists every required permission
BadSignatureRejectedWitness ==
    /\ Guarded /\ Len(Authorization) = 3
    /\ Authorization = Bearer(Authorization[3])
    /\ Authorization[3].kind = "jwt"
    /\ ~SignedWithSecret(Authorization[3])
    /\ Authorization[3].sig # NoSignature
    /\ Unexpired(Authorization[3])
    /\ Required \subseteq Permissions(Authorization[3])
    /\ Rejected(403)

----------------------------------------------------------------------------
\* C5: a guarded request that presents a valid, unexpired token lacking a
\* permission the guard requires is answered 403 and the handler is not
\* invoked; so POST /entities with a token without WRITE is never answered 201.
MissingPermissionRejected ==
    \A t \in issued :
        (Guarded /\ Authorization = Bearer(t) /\ Unexpired(t)
                 /\ ~(Required \subseteq Permissions(t)))
            => (Rejected(403) /\ res.status # 201)

MissingPermissionRejectedWitness ==
    \E t \in issued :
        /\ Guarded /\ req.method = "POST" /\ Authorization = Bearer(t)
        /\ t.payload.email = "vasea@gmail.com"
        /\ Permissions(t) = {"READ"}
        /\ Unexpired(t)
        /\ "name" \in DOMAIN req.body
        /\ Rejected(403)

----------------------------------------------------------------------------
\* C6: for every configured user, a login with that user's email and the
\* correct password is answered 200 with a token that verifies and decodes to
\* exactly that user's email, role and permissions as the store holds them.
CorrectPassword == "12345"

Decoded(t) == jwtVerify(<<t>>, SECRET_KEY, req.time)

LoginIssuesUserClaims ==
    \A i \in 1..Len(users) :
        (/\ IsLogin
         /\ Present(req.body, "email") /\ Present(req.body, "password")
         /\ req.body.email = users[i].email
         /\ req.body.password = CorrectPassword)
            => /\ res.status = 200
               /\ DOMAIN res.body = {"type", "token"}
               /\ Decoded(res.body.token).err = ""
               /\ Decoded(res.body.token).decoded.email = users[i].email
               /\ Decoded(res.body.token).decoded.role = users[i].role
               /\ Decoded(res.body.token).decoded.permissions = users[i].permissions

LoginIssuesUserClaimsWitness ==
    /\ IsLogin /\ res.status = 200
    /\ req.body = [email |-> "vasea@gmail.com", password |-> CorrectPassword]
    /\ res.body.token.payload.role = "READER"
    /\ res.body.token.payload.permissions = <<"READ">>

----------------------------------------------------------------------------
\* C7: a login with both fields present and an unregistered email, or a
\* registered email and a wrong password, is answered 401 without a token,
\* and the response is the same in the two cases.
Registered(email) == \E i \in 1..Len(users) : users[i].email = email

UnknownEmail(b) ==
    Present(b, "email") /\ Present(b, "password") /\ ~Registered(b.email)

WrongPassword(b) ==
    /\ Present(b, "email") /\ Present(b, "password")
    /\ Registered(b.email) /\ b.password # CorrectPassword

FailedLoginIsUniform ==
    /\ (IsLogin /\ (UnknownEmail(req.body) \/ WrongPassword(req.body)))
           => (res.status = 401 /\ "token" \notin DOMAIN res.body)
    /\ \A b1 \in LoginBodies, b2 \in LoginBodies :
           (UnknownEmail(b1) /\ WrongPassword(b2))
               => login(b1, users, now) = login(b2, users, now)

FailedLoginIsUniformWitness ==
    /\ IsLogin /\ WrongPassword(req.body)
    /\ res.status = 401
    /\ \E b \in LoginBodies : UnknownEmail(b) /\ login(b, users, req.time) = res

----------------------------------------------------------------------------
\* C8: a login with the email field or the password field missing is
\* answered 400 without a token, whatever the other field holds.
MissingFieldIs400 ==
    (IsLogin /\ ("email" \notin DOMAIN req.body \/ "password" \notin DOMAIN req.body))
        => (res.status = 400 /\ "token" \notin DOMAIN res.body)

MissingFieldIs400Witness ==
    /\ IsLogin /\ res.status = 400
    /\ req.body \in {[email |-> "andrei@gmail.com"], [email |-> "nobody@gmail.com"]}

----------------------------------------------------------------------------
\* C9: the claims a guard decodes are those of a token issued by login, and
\* the permissions of an issued token are those of the store's record for
\* its email: a snapshot that stays the same at every later use of the token.
Record(email) == users[CHOOSE i \in 1..Len(users) : users[i].email = email]

TokenIsLoginSnapshot ==
    /\ \A t \in issued :
           /\ Registered(t.payload.email)
           /\ t.payload.permissions = Record(t.payload.email).permissions
    /\ (Guarded /\ req.user # NoUser) =>
           /\ \E t \in issued : req.user = t.payload
           /\ req.user.permissions = Record(req.user.email).permissions

\* a token is decoded at a request made seconds after the login that issued it
TokenIsLoginSnapshotWitness ==
    /\ Guarded /\ nextCalled /\ req.user # NoUser
    /\ req.user.email = "vasea@gmail.com"
    /\ Seconds(req.time) > req.user.iat

----------------------------------------------------------------------------
\* C10: no request modifies the credential store.
StoreNeverModified == [][users' = users]_vars

\* logins of every outcome and guarded requests have been served
StoreNeverModifiedWitness ==
    /\ Cardinality(issued) = 2
    /\ Guarded /\ req.method = "POST" /\ res.status = 201
    /\ \E s1 \in Salts, s2 \in Salts : users = InitialUsers(s1, s2)

----------------------------------------------------------------------------
\* C11: the decision of a guard for a request is a function of the request's
\* Authorization header, the guard's required permissions, the secret and
\* the time of the request alone: whatever was served before, a request
\* with no header is answered 401, one whose second space-separated part is
\* a token signed with the secret, unexpired and holding the required
\* permissions is passed on, and every other one is answered 403.
IsSecondPart(h, j) ==
    /\ j \in 2..Len(h)
    /\ h[j - 1] = SP
    /\ \A i \in 1..(j - 2) : h[i] # SP
    /\ j < Len(h) => h[j + 1] = SP

DecisionFor(h, required, time) ==
    IF h = Undefined \/ h = <<>> THEN "401"
    ELSE IF \E j \in 2..Len(h) :
                /\ IsSecondPart(h, j)
                /\ SignedWithSecret(h[j])
                /\ time < h[j].payload.exp * Resolution
                /\ required \subseteq Permissions(h[j])
    THEN "next"
    ELSE "403"

Outcome ==
    IF nextCalled THEN "next"
    ELSE IF res.status = 401 THEN "401"
    ELSE IF res.status = 403 THEN "403"
    ELSE "none"

DecisionDependsOnRequestOnly ==
    Guarded => Outcome = DecisionFor(Authorization, Required, req.time)

\* a request is decided after two logins, other requests and a clock advance
DecisionDependsOnRequestOnlyWitness ==
    /\ Guarded /\ Cardinality(issued) = 2 /\ req.time >= ExpiresIn * Resolution
    /\ Outcome = "403"
    /\ Len(Authorization) = 3 /\ Authorization[3].kind = "jwt"
    /\ ~SignedWithSecret(Authorization[3])

----------------------------------------------------------------------------
\* C12: a guarded request goes Start, HeaderChecked, TokenVerified,
\* PermissionChecked, Authorized with early exits to the two rejections; it
\* ends with exactly one of 'responded 401', 'responded 403' and 'handler
\* invoked', which happened once; it always ends; and after a rejection the
\* handler is not invoked.
InFlight == {"Start", "HeaderChecked", "TokenVerified", "PermissionChecked"}

Terminal == {"Authorized", "RejectedUnauthenticated", "RejectedForbidden"}

Edges ==
    {<<"Start", "HeaderChecked">>, <<"Start", "RejectedUnauthenticated">>,
     <<"HeaderChecked", "TokenVerified">>, <<"HeaderChecked", "RejectedForbidden">>,
     <<"TokenVerified", "PermissionChecked">>, <<"TokenVerified", "RejectedForbidden">>,
     <<"PermissionChecked", "Authorized">>}
    \cup {<<p, "Start">> : p \in Resting}
    \cup {<<p, "Idle">> : p \in Resting}

OneOutcome ==
    /\ pc \in InFlight => (outcomes = <<>> /\ ~nextCalled /\ res = NoRes)
    /\ pc = "Authorized" => (outcomes = <<"next">> /\ nextCalled)
    /\ pc = "RejectedUnauthenticated" =>
           (outcomes = <<"401">> /\ ~nextCalled /\ res.status = 401)
    /\ pc = "RejectedForbidden" =>
           (outcomes = <<"403">> /\ ~nextCalled /\ res.status = 403)

RequestLifecycle ==
    /\ []OneOutcome
    /\ [][pc' # pc => <<pc, pc'>> \in Edges]_vars
    /\ [][(pc \in {"RejectedUnauthenticated", "RejectedForbidden"} /\ nextCalled')
              => pc' = "Authorized" /\ req' # req]_vars
    /\ (pc = "Start") ~> (pc \in Terminal)

\* a request that passed verification and was rejected at the permission test
RequestLifecycleWitness ==
    /\ pc = "RejectedForbidden" /\ req.user # NoUser
    /\ outcomes = <<"403">>

----------------------------------------------------------------------------
\* C13 as stated: a request refused by a guard is answered with a status and
\* no body, the same for every 403.
RefusalHasNoBody ==
    (Guarded /\ ~nextCalled) =>
        (res.status \in {401, 403} /\ res.body = NoBody)

\* C13 as amended: a request refused by a guard is answered with the status
\* and, as body, the standard text of that status and nothing else; the 403
\* for a refused token and the 403 for a missing permission are the same
\* response.
RefusalIsStatusTextOnly ==
    (Guarded /\ ~nextCalled) =>
        \/ res = [status |-> 401, body |-> [type |-> "text", text |-> "Unauthorized"]]
        \/ res = [status |-> 403, body |-> [type |-> "text", text |-> "Forbidden"]]

\* a valid token lacking the permission is refused like a refused token
RefusalIsStatusTextOnlyWitness ==
    /\ Guarded /\ ~nextCalled /\ req.user # NoUser
    /\ res.status = 403
    /\ res.body.text = "Forbidden"

----------------------------------------------------------------------------
\* C14: the decoded claims are attached to the request only on the
\* authorized path; a request refused by the guard ends with none attached.
ClaimsAttachedOnlyWhenAuthorized ==
    (Guarded /\ ~nextCalled) => req.user = NoUser

----------------------------------------------------------------------------
\* C15: on POST /entities the guard decides before the body is validated:
\* 400 is answered only to a request that passed the WRITE guard and has no
\* name, 201 only to one that passed it and has a name; without a header the
\* answer is 401, and with a token that is invalid, expired or lacks WRITE it
\* is 403, whether or not the name is there.
PassesWriteGuard == DecisionFor(Authorization, {"WRITE"}, req.time) = "next"

AuthorizationBeforeValidation ==
    (Guarded /\ req.method = "POST") =>
        /\ res.status = 400 => (nextCalled /\ PassesWriteGuard /\ ~Present(req.body, "name"))
        /\ res.status = 201 => (nextCalled /\ PassesWriteGuard /\ Present(req.body, "name"))
        /\ (PassesWriteGuard /\ ~Present(req.body, "name")) => res.status = 400
        /\ (PassesWriteGuard /\ Present(req.body, "name")) => res.status = 201
        /\ Authorization \in {Undefined, <<>>} => Rejected(401)
        /\ (Authorization \notin {Undefined, <<>>} /\ ~PassesWriteGuard) => Rejected(403)

\* no name and a token without WRITE: the answer is 403, not 400
AuthorizationBeforeValidationWitness ==
    /\ Guarded /\ req.method = "POST" /\ "name" \notin DOMAIN req.body
    /\ \E t \in issued :
           /\ Authorization = Bearer(t)
           /\ Unexpired(t)
           /\ Permissions(t) = {"READ"}
    /\ Rejected(403)

----------------------------------------------------------------------------
\* C16: a guard answers 401 exactly when the Authorization header is absent
\* or empty; a request with a non-empty header is answered 403 or passed to
\* the handler, and 'Bearer garbage' is answered 403.
NoHeader == Authorization \in {Undefined, <<>>}

UnauthenticatedOnlyWithoutHeader ==
    Guarded =>
        /\ res.status = 401 <=> NoHeader
        /\ NoHeader => ~nextCalled
        /\ ~NoHeader => (Rejected(403) \/ nextCalled)
        /\ Authorization = Bearer(Word("garbage")) => Rejected(403)

UnauthenticatedOnlyWithoutHeaderWitness ==
    /\ Guarded /\ req.method = "GET"
    /\ Authorization = Bearer(Word("garbage"))
    /\ Rejected(403)

----------------------------------------------------------------------------
\* C17: the clock never goes back; a token issued by login is accepted by a
\* guard whose permissions it holds at every request made before the instant
\* of its expiry (exp = iat + 1 minute), also right after an earlier use;
\* at or after that instant it is refused, and once a request presenting it
\* was refused as expired the next request presenting it is refused too.
Holds(t) == Guarded /\ Authorization = Bearer(t) /\ Required \subseteq Permissions(t)

AcceptedWhileUnexpired ==
    \A t \in issued :
        /\ (Holds(t) /\ Unexpired(t)) => nextCalled
        /\ (Holds(t) /\ ~Unexpired(t)) => Rejected(403)

----------------------------------------------------------------------------
\* C18: an authorized GET /entities with skip >= 0 and limit >= 0 (by
\* default 0 and 10) is answered 200 with exactly the entities
\* {id: i, name: 'Entity i'} for i from skip to min(skip + limit, 100) - 1,
\* in ascending order of id; none when skip >= 100 or limit = 0.
Decimal(d) ==
    IF Len(d) = 1 THEN d[1]
    ELSE IF Len(d) = 2 THEN 10 * d[1] + d[2]
    ELSE 100 * d[1] + 10 * d[2] + d[3]

QuerySkip == IF "skip" \in DOMAIN req.query THEN Decimal(req.query.skip) ELSE 0

QueryLimit == IF "limit" \in DOMAIN req.query THEN Decimal(req.query.limit) ELSE 10

PageEnd == IF QuerySkip + QueryLimit < 100 THEN QuerySkip + QueryLimit ELSE 100

PageIsExact ==
    (Guarded /\ req.method = "GET" /\ nextCalled) =>
        /\ res.status = 200
        /\ DOMAIN res.body = {"type", "items"}
        /\ Len(res.body.items) = (IF PageEnd > QuerySkip THEN PageEnd - QuerySkip ELSE 0)
        /\ \A k \in 1..Len(res.body.items) :
               /\ res.body.items[k].id = QuerySkip + k - 1
               /\ res.body.items[k].name = <<"Entity", QuerySkip + k - 1>>
        /\ (QuerySkip >= 100 \/ QueryLimit = 0) => res.body.items = <<>>

\* GET /entities?skip=5&limit=3 with the READER's token: entities 5, 6, 7
PageIsExactWitness ==
    /\ Guarded /\ req.method = "GET" /\ nextCalled
    /\ req.user.role = "READER"
    /\ req.query = [skip |-> <<5>>, limit |-> <<3>>]
    /\ Len(res.body.items) = 3
    /\ res.body.items[1].id = 5 /\ res.body.items[3].id = 7

====
